---- MODULE Spec2Model ----
(***************************************************************************)
(* One call of the default export of src/index.js:                         *)
(*   (tag, options, ...childNodes) => node | null                          *)
(* The call is cut into its three phases: the node provider (lines 17-44), *)
(* one iteration of the option loop per own key (lines 47-148) and the     *)
(* append / return (lines 150-152).  The DOM is the environment: what a    *)
(* lookup finds, which properties a node exposes and what the global name  *)
(* `isSVG` resolves to are chosen nondeterministically.                    *)
(*                                                                         *)
(* Strings that the code inspects with startsWith / slice are sequences of *)
(* atoms: the markers "<", "svg:", "?", "@" are atoms of their own, so     *)
(* startsWith(m) is Head = m and slice(len m) is Tail.  Every key of the   *)
(* model has a name the platform accepts as an attribute name.  JavaScript *)
(* values are named by identifiers (vTrue, vFn, ...); TypeOf, Truthy,      *)
(* IsArray, ToStr and Stringify give what the language gives for them.     *)
(***************************************************************************)
EXTENDS Naturals, Sequences, FiniteSets, TLC

\* ------------------------------------------------------------------ bounds
\* most own keys an option bag carries
MaxKeys == 2
\* most child nodes passed after the options
MaxChildren == 1

\* ------------------------------------------------------------------ values
vTrue == "<true>"
vFalse == "<false>"
vNull == "<null>"
vUndef == "<undefined>"
vStr == "<string s>"
vNum == "<number 7>"
vFn == "<function fn>"
vHandler == "<object {handleEvent(){}}>"
vObj == "<object {a:1}>"
vCyclic == "<object o, o.self = o>"
vArrFnOpts == "<array [fn, {once:true}]>"
vArrEmpty == "<array []>"
vOnce == "<object {once:true}>"
vAria == "<object {Label:'x', role:'button'}>"
vAriaSym == "<object {Label:'x', [Symbol()]:'y'}>"
vEmptyMap == "<object {}>"
vData == "<object {userId:'7'}>"
vClasses == "<array ['a','b']>"
vDoc == "<document>"
vIs == "<string my-el>"
\* a symbol used as a sub-key of a mapping
SymSub == "<symbol>"

\* typeof value
TypeOf(v) ==
  CASE v \in {vTrue, vFalse} -> "boolean"
    [] v = vUndef -> "undefined"
    [] v \in {vStr, vIs} -> "string"
    [] v = vNum -> "number"
    [] v = vFn -> "function"
    [] OTHER -> "object"

\* !!value
Truthy(v) == v \notin {vFalse, vNull, vUndef}

\* Array.isArray(value)
IsArray(v) == v \in {vArrFnOpts, vArrEmpty, vClasses}

\* the elements a spread (...value) of an array yields
Elements(v) ==
  CASE v = vArrFnOpts -> <<vFn, vOnce>>
    [] v = vClasses -> <<"a", "b">>
    [] OTHER -> <<>>

\* whether ...value can be spread at all (value is iterable)
Iterable(v) == IsArray(v) \/ TypeOf(v) = "string"

\* typeof value.handleEvent === 'function'
HasHandleEvent(v) == v = vHandler

\* the platform's string coercion of a value passed as an attribute value
ToStr(v) ==
  CASE v = vTrue -> "true"
    [] v = vFalse -> "false"
    [] v = vNull -> "null"
    [] v = vUndef -> "undefined"
    [] v = vStr -> "s"
    [] v = vIs -> "my-el"
    [] v = vNum -> "7"
    [] v = vFn -> "function fn(){}"
    [] v = vArrEmpty -> ""
    [] v = vClasses -> "a,b"
    [] v = vArrFnOpts -> "function fn(){},[object Object]"
    [] OTHER -> "[object Object]"

\* JSON.stringify(value) throws a TypeError
StringifyThrows(v) == v = vCyclic

\* JSON.stringify(value), where it returns
Stringify(v) ==
  CASE v = vObj -> "{\"a\":1}"
    [] v = vArrFnOpts -> "[null,{\"once\":true}]"
    [] v = vArrEmpty -> "[]"
    [] v = vClasses -> "[\"a\",\"b\"]"
    [] v = vOnce -> "{\"once\":true}"
    [] v = vAria -> "{\"Label\":\"x\",\"role\":\"button\"}"
    [] v = vAriaSym -> "{\"Label\":\"x\"}"
    [] v = vData -> "{\"userId\":\"7\"}"
    [] v = vDoc -> "{\"location\":{}}"
    [] OTHER -> "{}"

\* Reflect.ownKeys(value) throws a TypeError (value is not an object)
OwnKeysThrows(v) == TypeOf(v) \notin {"object", "function"} \/ v = vNull

\* the own entries of a mapping, strings first, then symbols
Entries(v) ==
  CASE v = vAria -> << [k |-> "Label", v |-> "x"], [k |-> "role", v |-> "button"] >>
    [] v = vAriaSym -> << [k |-> "Label", v |-> "x"], [k |-> SymSub, v |-> "y"] >>
    [] v = vData -> << [k |-> "userId", v |-> "7"] >>
    [] OTHER -> <<>>

\* String.prototype.toLowerCase on the sub-keys of the model
Lower(k) == IF k = "Label" THEN "label" ELSE k

\* -------------------------------------------------------------------- keys
StrKey(s) == [sym |-> FALSE, s |-> s]
SymKey == [sym |-> TRUE, s |-> <<"Symbol(k)">>]
kAria == StrKey(<<"aria">>)
kData == StrKey(<<"data">>)
kStyle == StrKey(<<"style">>)
kClass == StrKey(<<"class">>)
kHtml == StrKey(<<"html">>)
kText == StrKey(<<"text">>)
kClassList == StrKey(<<"classList">>)
kIs == StrKey(<<"is">>)
kDocument == StrKey(<<"document">>)
kTitle == StrKey(<<"title">>)
kFoo == StrKey(<<"foo">>)
kAtClick == StrKey(<<"@", "click">>)
kQOpen == StrKey(<<"?", "open">>)

\* key.startsWith(marker), for a string key
StartsWith(s, marker) == Len(s) > 0 /\ Head(s) = marker


\* ------------------------------------------------------------ platform DOM
\* a node: namespace, local name, customized built-in it extends, the keys
\* for which `key in node` holds, those of them whose assignment throws,
\* and the five surfaces the resolver writes to
MkNode(id, ns, local, ext, hasStyle) ==
  [ exists |-> TRUE, id |-> id, ns |-> ns, local |-> local, ext |-> ext,
    props |-> {<<"className">>, <<"classList">>, <<"innerHTML">>,
               <<"textContent">>, <<"dataset">>}
              \cup (IF hasStyle THEN {<<"style">>} ELSE {})
              \cup (IF ns = "html" THEN {<<"title">>} ELSE {<<"viewBox">>}),
    ro |-> IF ns = "svg" THEN {<<"className">>, <<"viewBox">>, <<"dataset">>}
           ELSE {<<"dataset">>},
    pv |-> {}, attrs |-> {}, dataset |-> {}, classes |-> {},
    listeners |-> {}, children |-> 0 ]

\* the value of `node` before line 23 / 32 / 44 assigns it; also null
NoNode ==
  [ exists |-> FALSE, id |-> 0, ns |-> "html", local |-> <<>>, ext |-> "",
    props |-> {}, ro |-> {}, pv |-> {}, attrs |-> {}, dataset |-> {},
    classes |-> {}, listeners |-> {}, children |-> 0 ]

\* a node that was in the document before the call: it already carries the
\* attribute `open`, a class and a child
ExistingNode(ns, hasStyle) ==
  [ MkNode(1, ns, IF ns = "svg" THEN <<"circle">> ELSE <<"div">>, "", hasStyle)
    EXCEPT !.attrs = {[n |-> <<"open">>, v |-> ""]},
           !.classes = {"z"}, !.children = 1 ]

Existing == { ExistingNode(ns, hs) : ns \in {"html", "svg"}, hs \in BOOLEAN }

HasAttr(n, name) == \E a \in n.attrs : a.n = name
AttrOf(n, name) == (CHOOSE a \in n.attrs : a.n = name).v

\* node.setAttribute(name, str)
SetAttribute(n, name, str) ==
  [n EXCEPT !.attrs = {a \in @ : a.n # name} \cup {[n |-> name, v |-> str]}]

\* node.toggleAttribute(name, force)
ToggleAttribute(n, name, force) ==
  IF force
    THEN IF HasAttr(n, name) THEN n ELSE SetAttribute(n, name, "")
    ELSE [n EXCEPT !.attrs = {a \in @ : a.n # name}]

\* node.addEventListener(type, listener, ...opts)
AddEventListener(n, type, listener, opts) ==
  [n EXCEPT !.listeners = @ \cup {[type |-> type, fn |-> listener, opts |-> opts]}]

\* node.dataset[k] = v
SetData(n, k, v) ==
  [n EXCEPT !.dataset = {d \in @ : d.k # k} \cup {[k |-> k, v |-> v]}]

\* node[name] = v, where the platform accepts the write
SetProperty(n, name, v) ==
  [n EXCEPT !.pv = {p \in @ : p.k # name} \cup {[k |-> name, v |-> v]}]

\* `key in node`
InNode(key, n) == ~key.sym /\ key.s \in n.props

\* --------------------------------------------------- outcome of one pair
Mut(op, name, val, opt) == [op |-> op, name |-> name, val |-> val, opt |-> opt]
Ok(n, log) == [node |-> n, log |-> log, fault |-> FALSE, skip |-> FALSE]
Throw(n, log) == [node |-> n, log |-> log, fault |-> TRUE, skip |-> FALSE]
Skip(n) == [node |-> n, log |-> <<>>, fault |-> FALSE, skip |-> TRUE]

\* ------------------------------------------------------- option resolver
\* SkipHint without the test of `custom`: every `is` key is dropped
SkipHintAlways(custom, key) == key = kIs

\* line 48: the `is` hint consumed by createElement is not resolved again
SkipHint(custom, key) == custom /\ key = kIs

\* lines 55-60: one setAttribute per own key of the aria mapping; a symbol
\* sub-key other than 'role' has no toLowerCase and throws
RECURSIVE AriaLoop(_, _, _)
AriaLoop(n, log, es) ==
  IF es = <<>> THEN Ok(n, log)
  ELSE LET e == Head(es) IN
    IF e.k = SymSub THEN Throw(n, log)
    ELSE LET name == IF e.k = "role" THEN <<e.k>> ELSE <<"aria-" \o Lower(e.k)>> IN
      AriaLoop(SetAttribute(n, name, e.v),
               Append(log, Mut("setAttribute", name, e.v, <<>>)), Tail(es))

\* lines 54-62: case 'aria'
AriaIntent(n, value) ==
  IF OwnKeysThrows(value) THEN Throw(n, <<>>)
  ELSE AriaLoop(n, <<>>, Entries(value))

\* Object.assign(node.dataset, value): one dataset write per own entry
RECURSIVE AssignLoop(_, _, _)
AssignLoop(n, log, es) ==
  IF es = <<>> THEN Ok(n, log)
  ELSE LET e == Head(es) IN
    AssignLoop(SetData(n, e.k, e.v),
               Append(log, Mut("assignDataset", <<e.k>>, e.v, <<>>)), Tail(es))

\* lines 63-66: case 'data'; null and undefined sources are skipped by assign
DataIntent(n, value) == AssignLoop(n, <<>>, Entries(value))

\* lines 67-71: case 'style'.  `isSVG` is the const of the block of lines
\* 27-41 and is out of scope here, so the name resolves to the global
\* binding g: "unbound" (a ReferenceError), or a truthy or falsy global.
\* This case runs only when 'style' is not in node, where node.style is
\* undefined and the assignment to its cssText throws.
StyleIntent(n, value, g) ==
  CASE g = "unbound" -> Throw(n, <<>>)
    [] g = "truthy" ->
         Ok(SetAttribute(n, <<"style">>, ToStr(value)),
            << Mut("setAttribute", <<"style">>, ToStr(value), <<>>) >>)
    [] OTHER ->
         IF <<"style">> \in n.props
           THEN Ok(SetProperty(n, <<"style", "cssText">>, value),
                   << Mut("setCssText", <<"style">>, value, <<>>) >>)
           ELSE Throw(n, <<>>)

\* lines 72-83: class, html and text are retargeted to a property name
Retarget(key) ==
  CASE key = kClass -> StrKey(<<"className">>)
    [] key = kHtml -> StrKey(<<"innerHTML">>)
    [] key = kText -> StrKey(<<"textContent">>)
    [] OTHER -> key

\* lines 89-92: node.classList.add(...value)
ClassListAdd(n, value) ==
  IF ~Iterable(value) THEN Throw(n, <<>>)
  ELSE LET toks == IF IsArray(value) THEN Elements(value) ELSE <<ToStr(value)>>
           set == { toks[j] : j \in 1..Len(toks) }
       IN Ok([n EXCEPT !.classes = @ \cup set],
             << Mut("classListAdd", <<"classList">>, value, <<>>) >>)

\* PropertyWrite without the try / catch: a rejected assignment escapes
PropertyWriteNoCatch(n, name, value) ==
  IF name \in n.ro
    THEN Throw(n, <<>>)
    ELSE Ok(SetProperty(n, name, value),
            << Mut("setProperty", name, value, <<>>) >>)

\* lines 93-102: node[key] = value, degraded to setAttribute(key, value)
\* when the assignment throws
PropertyWrite(n, name, value) ==
  IF name \in n.ro
    THEN Ok(SetAttribute(n, name, ToStr(value)),
            << Mut("setAttribute", name, ToStr(value), <<>>) >>)
    ELSE Ok(SetProperty(n, name, value),
            << Mut("setProperty", name, value, <<>>) >>)

\* lines 87-105: `key in node`
SettableProperty(n, key, value) ==
  IF key = kClassList THEN ClassListAdd(n, value)
  ELSE PropertyWrite(n, key.s, value)

\* Coerce without the double negation
CoerceNone(value) == value

\* line 110: value = !!value
Coerce(value) == IF Truthy(value) THEN vTrue ELSE vFalse

\* MarkerKey without the slice: the marker stays in the name
MarkerKeyKept(s) == s

\* line 112: key = key.slice(1)
MarkerKey(s) == Tail(s)

\* ArrayListener without the spread: the array itself is the listener
ArrayListenerNoSpread(n, name, value) ==
  Ok(AddEventListener(n, name, value, <<>>),
     << Mut("addEventListener", name, value, <<>>) >>)

\* line 115: node.addEventListener(key, ...value); with an empty array the
\* call has one argument and throws a TypeError
ArrayListener(n, name, value) ==
  LET args == Elements(value) IN
  IF args = <<>> THEN Throw(n, <<>>)
  ELSE Ok(AddEventListener(n, name, Head(args), Tail(args)),
          << Mut("addEventListener", name, Head(args), Tail(args)) >>)

\* lines 123-147: the switch on typeof value and the last resort
TypeFallback(n, name, value) ==
  LET t == TypeOf(value)
      listen == Ok(AddEventListener(n, name, value, <<>>),
                   << Mut("addEventListener", name, value, <<>>) >>)
      attr(str) == Ok(SetAttribute(n, name, str),
                      << Mut("setAttribute", name, str, <<>>) >>)
  IN CASE t = "boolean" ->
            Ok(ToggleAttribute(n, name, value = vTrue),
               << Mut("toggleAttribute", name, value, <<>>) >>)
       [] t = "undefined" -> Ok(n, <<>>)
       [] t = "object" ->
            IF ~Truthy(value) THEN Ok(n, <<>>)
            ELSE IF HasHandleEvent(value) THEN listen
            ELSE IF StringifyThrows(value) THEN Throw(n, <<>>)
            ELSE attr(Stringify(value))
       [] t = "function" -> listen
       [] OTHER -> attr(ToStr(value))

\* lines 108-147: the marker switch, then the type-directed fallback.  A
\* symbol key has no startsWith: evaluating the first case label throws.
Fallback(n, key, value) ==
  IF key.sym THEN Throw(n, <<>>)
  ELSE LET q == StartsWith(key.s, "?")
           marked == q \/ StartsWith(key.s, "@")
           v1 == IF q THEN Coerce(value) ELSE value
           k1 == IF marked THEN MarkerKey(key.s) ELSE key.s
       IN IF marked /\ IsArray(v1) THEN ArrayListener(n, k1, v1)
          ELSE TypeFallback(n, k1, v1)

\* lines 48-147: one iteration of the loop, for key and value = options[key]
ResolvePair(n, custom, key, value, g) ==
  IF SkipHint(custom, key) THEN Skip(n)
  ELSE IF ~n.exists THEN Throw(n, <<>>)
  ELSE IF ~InNode(key, n) /\ key = kAria THEN AriaIntent(n, value)
  ELSE IF ~InNode(key, n) /\ key = kData THEN DataIntent(n, value)
  ELSE IF ~InNode(key, n) /\ key = kStyle THEN StyleIntent(n, value, g)
  ELSE LET k2 == IF InNode(key, n) THEN key ELSE Retarget(key) IN
    IF InNode(k2, n) THEN SettableProperty(n, k2, value)
    ELSE Fallback(n, k2, value)

\* ------------------------------------------------------------------ inputs
\* the values tried under a key that no rule names
Generic == {vTrue, vFalse, vNull, vUndef, vStr, vNum, vFn, vHandler, vObj,
            vCyclic, vArrFnOpts, vArrEmpty}

kViewBox == StrKey(<<"viewBox">>)

\* the key / value pairs an option bag is built from; `is` and `document`
\* are in the bag exactly when the call was given them
PairsOf(hasIs, hasDoc) ==
  ({kFoo, kAtClick, kQOpen} \X Generic)
  \cup ({SymKey} \X {vTrue, vNull})
  \cup ({kAria} \X {vAria, vAriaSym, vEmptyMap, vNull})
  \cup ({kData} \X {vData, vEmptyMap, vNull})
  \cup ({kStyle, kClass, kHtml, kText, kTitle} \X {vStr})
  \cup ({kViewBox} \X {vStr, vNum})
  \cup ({kClassList} \X {vClasses, vNum})
  \cup (IF hasIs THEN {<<kIs, vIs>>} ELSE {})
  \cup (IF hasDoc THEN {<<kDocument, vDoc>>} ELSE {})

\* the first argument: a tag name, a selector, or a node
StrTag(s) == [str |-> TRUE, s |-> s, node |-> NoNode]
NodeTag(n) == [str |-> FALSE, s |-> <<>>, node |-> n]
TagInputs ==
  { StrTag(<<"div">>), StrTag(<<"svg">>), StrTag(<<"svg:", "circle">>),
    StrTag(<<"<", "#a">>) }
  \cup { NodeTag(n) : n \in Existing }

\* what the global name `isSVG` is bound to
Globals == {"unbound", "truthy", "falsy"}

\* ------------------------------------------------------------------- state
VARIABLES pc, tag, hasIs, hasDoc, doc, node, custom, done, last, result
vars == <<pc, tag, hasIs, hasDoc, doc, node, custom, done, last, result>>

NoLast ==
  [ valid |-> FALSE, key |-> kFoo, value |-> vUndef, g |-> "unbound",
    pre |-> NoNode, custom |-> FALSE, log |-> <<>>, fault |-> FALSE,
    skip |-> FALSE ]

NoResult == [kind |-> "none", id |-> 0]

Init ==
  /\ pc = "start"
  /\ tag \in TagInputs
  /\ hasIs \in BOOLEAN
  /\ hasDoc \in BOOLEAN
  /\ doc = "none"
  /\ node = NoNode
  /\ custom = FALSE
  /\ done = {}
  /\ last = NoLast
  /\ result = NoResult

\* line 18: options.document || document (the model's document is truthy)
ChooseDoc == IF hasDoc THEN "options.document" ELSE "ambient"

\* NotFound with the test inverted
NotFoundInverted(found) == found.exists

\* line 25: if (!node) return null
NotFound(found) == ~found.exists

\* lines 20-26: the tag starts with `<`: doc.querySelector(tag.slice(1))
Lookup ==
  /\ pc = "start"
  /\ tag.str /\ StartsWith(tag.s, "<")
  /\ doc' = ChooseDoc
  /\ \E found \in Existing \cup {NoNode} :
       IF NotFound(found)
         THEN /\ pc' = "returned"
              /\ result' = [kind |-> "null", id |-> 0]
              /\ node' = found
         ELSE /\ pc' = "loop"
              /\ result' = result
              /\ node' = found
  /\ UNCHANGED <<tag, hasIs, hasDoc, custom, done, last>>

\* lines 27-41: createElementNS for `svg` and `svg:<name>`, else
\* createElement, with { is } when options.is is truthy.  Whether the new
\* node exposes `style` is the platform's choice.
Create ==
  /\ pc = "start"
  /\ tag.str /\ ~StartsWith(tag.s, "<")
  /\ doc' = ChooseDoc
  /\ LET isSVG == tag.s = <<"svg">>
         isNS == isSVG \/ StartsWith(tag.s, "svg:")
         cust == ~isNS /\ hasIs
     IN /\ custom' = cust
        /\ \E hs \in BOOLEAN :
             node' = IF isNS
                       THEN MkNode(2, "svg", IF isSVG THEN tag.s ELSE Tail(tag.s), "", hs)
                       ELSE MkNode(2, "html", tag.s, IF cust THEN ToStr(vIs) ELSE "", hs)
  /\ pc' = "loop"
  /\ UNCHANGED <<tag, hasIs, hasDoc, done, last, result>>

\* line 44: the tag is not a string: it is the node
UseNode ==
  /\ pc = "start"
  /\ ~tag.str
  /\ doc' = ChooseDoc
  /\ node' = tag.node
  /\ pc' = "loop"
  /\ UNCHANGED <<tag, hasIs, hasDoc, custom, done, last, result>>

\* the keys of the bag that the loop has still to reach for certain
Pending ==
  ((IF hasIs THEN {kIs} ELSE {}) \cup (IF hasDoc THEN {kDocument} ELSE {})) \ done

\* lines 47-148: the next own key of the bag and its value
ResolveKey ==
  /\ pc = "loop"
  /\ Cardinality(done) < MaxKeys
  /\ \E p \in PairsOf(hasIs, hasDoc) :
       /\ p[1] \notin done
       /\ p[1] \in Pending \/ MaxKeys - Cardinality(done) > Cardinality(Pending)
       /\ \E g \in IF p[1] = kStyle /\ ~SkipHint(custom, p[1]) /\ ~InNode(p[1], node)
                     THEN Globals ELSE {"unbound"} :
            LET r == ResolvePair(node, custom, p[1], p[2], g) IN
            /\ node' = r.node
            /\ last' = [ valid |-> TRUE, key |-> p[1], value |-> p[2], g |-> g,
                         pre |-> node, custom |-> custom, log |-> r.log,
                         fault |-> r.fault, skip |-> r.skip ]
            /\ pc' = IF r.fault THEN "thrown" ELSE "loop"
            /\ done' = done \cup {p[1]}
  /\ UNCHANGED <<tag, hasIs, hasDoc, doc, custom, result>>

\* line 152: return node
ReturnValue(n) == [kind |-> "node", id |-> n.id]

\* lines 150-152: append the children, if any, and return the node
Return ==
  /\ pc = "loop"
  /\ Pending = {}
  /\ \E c \in 0..MaxChildren :
       IF c > 0 /\ ~node.exists
         THEN /\ pc' = "thrown"
              /\ UNCHANGED <<node, result>>
         ELSE /\ pc' = "returned"
              /\ node' = [node EXCEPT !.children = @ + c]
              /\ result' = IF node.exists THEN ReturnValue(node)
                           ELSE [kind |-> "null", id |-> 0]
  /\ UNCHANGED <<tag, hasIs, hasDoc, doc, custom, done, last>>

Next == Lookup \/ Create \/ UseNode \/ ResolveKey \/ Return

Spec == Init /\ [][Next]_vars

TypeOK ==
  /\ pc \in {"start", "loop", "returned", "thrown"}
  /\ Cardinality(done) <= MaxKeys

\* ================================================================== claims
\* the six named intents of the resolver
NamedIntent(key) == key \in {kAria, kData, kStyle, kClass, kHtml, kText}

\* the last pair was resolved and its key was not a property of the node
NotProperty == last.valid /\ ~InNode(last.key, last.pre)

\* the last pair falls to the fallback rules
Unrecognized == NotProperty /\ ~NamedIntent(last.key)

\* the outcome category of a mutation
Category(op) ==
  CASE op \in {"setAttribute", "toggleAttribute"} -> "attribute write"
    [] op \in {"setProperty", "setCssText"} -> "property write"
    [] op = "assignDataset" -> "dataset merge"
    [] op = "addEventListener" -> "listener registration"
    [] OTHER -> "class-list addition"

Categories(log) == { Category(log[j].op) : j \in 1..Len(log) }

\* the node's surfaces are as they were before the last pair
Untouched ==
  /\ node.attrs = last.pre.attrs
  /\ node.pv = last.pre.pv
  /\ node.dataset = last.pre.dataset
  /\ node.classes = last.pre.classes
  /\ node.listeners = last.pre.listeners

\* the last pair set no attribute, property, dataset entry, class or listener
NothingSet ==
  /\ node.attrs \subseteq last.pre.attrs
  /\ node.pv = last.pre.pv
  /\ node.dataset = last.pre.dataset
  /\ node.classes = last.pre.classes
  /\ node.listeners = last.pre.listeners

\* C1: a key that is neither a named intent nor a property of the node,
\* string or symbol, never makes the call raise, whatever its value.
C1_NeverRaises == Unrecognized => ~last.fault

\* C2: malformed values do not fault: a non-mapping or symbol-keyed mapping
\* under aria / data, a non-sequence under classList, and an object with no
\* JSON form all leave the call completing normally.
C2_MalformedAbsorbed ==
  ( last.valid /\
    \/ /\ last.key \in {kAria, kData} /\ NotProperty
       /\ last.value \in {vNull, vUndef, vAriaSym}
    \/ last.key = kClassList /\ ~IsArray(last.value)
    \/ TypeOf(last.value) = "object" /\ StringifyThrows(last.value) )
  => ~last.fault

\* C3: `style`, when not a property of the node: a namespaced node gets the
\* literal style attribute, any other node gets its style text assigned,
\* that is the pair's only mutation, and the call completes normally.
C3_StyleIntent ==
  (NotProperty /\ last.key = kStyle) =>
    /\ ~last.fault
    /\ last.log = IF last.pre.ns = "svg"
                    THEN << Mut("setAttribute", <<"style">>, ToStr(last.value), <<>>) >>
                    ELSE << Mut("setCssText", <<"style">>, last.value, <<>>) >>

\* C4 as stated: every pair triggers at most one mutation, and triggers none
\* only when its value is null or undefined (pairs whose resolution raised
\* are left aside).
C4_AtMostOneMutation ==
  (last.valid /\ ~last.fault) =>
    /\ Len(last.log) <= 1
    /\ last.log = <<>> => last.value \in {vNull, vUndef}

\* C4 as amended: all mutations of a pair belong to one outcome category;
\* only aria and data trigger more than one, one per entry of the mapping;
\* a pair triggers none only when its value is null or undefined, when it
\* is the consumed `is` hint, when its aria / data mapping has no entry, or
\* when its resolution raised.
C4_OneCategory ==
  last.valid =>
    /\ Cardinality(Categories(last.log)) <= 1
    /\ Len(last.log) > 1 =>
         /\ last.key \in {kAria, kData} /\ NotProperty
         /\ Len(last.log) = Len(Entries(last.value))
    /\ last.log = <<>> =>
         \/ last.value \in {vNull, vUndef}
         \/ last.custom /\ last.key = kIs
         \/ last.key \in {kAria, kData} /\ NotProperty /\ Entries(last.value) = <<>>
         \/ last.fault
    /\ last.log = <<>> => Untouched

C4_Witness ==
  /\ last.valid /\ last.key = kAria /\ last.value = vAria
  /\ Len(last.log) = 2 /\ HasAttr(node, <<"aria-label">>) /\ HasAttr(node, <<"role">>)

\* C5 as stated: for a key that is neither a named intent nor a property, a
\* boolean value leaves a boolean attribute under the key itself, present
\* iff the value is true; null and undefined set nothing.
C5_AttributeUnderKey ==
  (Unrecognized /\ ~last.fault) =>
    /\ TypeOf(last.value) = "boolean" =>
         (HasAttr(node, last.key.s) <=> last.value = vTrue)
    /\ last.value \in {vNull, vUndef} => NothingSet

\* the name the code resolves a string key under: one leading marker off
Stripped(s) ==
  IF Len(s) > 0 /\ Head(s) \in {"?", "@"} THEN SubSeq(s, 2, Len(s)) ELSE s

\* C5 as amended: for a string key that is neither a named intent nor a
\* property, a boolean value leaves a boolean attribute under the key with
\* one leading `?` or `@` stripped, present iff the value is true; null and
\* undefined set no attribute and no property (under a `?` key they remove
\* the attribute, as false does); the pair does not raise.
C5_AttributeUnderStrippedKey ==
  (Unrecognized /\ ~last.key.sym /\ ~(last.custom /\ last.key = kIs)) =>
    /\ TypeOf(last.value) = "boolean" =>
         /\ ~last.fault
         /\ HasAttr(node, Stripped(last.key.s)) <=> last.value = vTrue
         /\ \A a \in node.attrs : a.n = Stripped(last.key.s) => a.v = ""
         /\ last.key.s # Stripped(last.key.s) => ~HasAttr(node, last.key.s)
    /\ last.value \in {vNull, vUndef} =>
         /\ ~last.fault
         /\ NothingSet
         /\ ~StartsWith(last.key.s, "?") => Untouched
         /\ StartsWith(last.key.s, "?") => ~HasAttr(node, Stripped(last.key.s))

C5_Witness ==
  /\ Unrecognized /\ last.key = kAtClick /\ last.value = vTrue
  /\ HasAttr(node, <<"click">>)

\* C6: when the call returns, it returns null exactly when the tag was a
\* selector that matched nothing, and then no option was resolved and no
\* child appended; otherwise it returns the configured node, which is the
\* node passed in when a node was passed.
C6_ReturnValue ==
  /\ pc = "returned" <=> result.kind # "none"
  /\ pc = "returned" =>
       IF tag.str /\ StartsWith(tag.s, "<") /\ ~node.exists
         THEN result.kind = "null" /\ done = {} /\ ~last.valid /\ node = NoNode
         ELSE /\ node.exists
              /\ result = [kind |-> "node", id |-> node.id]
              /\ ~tag.str => result.id = tag.node.id

C6_Witness ==
  pc = "returned" /\ result.kind = "null" /\ tag = StrTag(<<"<", "#a">>)

\* the property name a key is written under: itself when it is a property
\* of the node, else what class / html / text stand for
TargetOf(key, n) ==
  IF InNode(key, n) THEN key.s
  ELSE CASE key = kClass -> <<"className">>
         [] key = kHtml -> <<"innerHTML">>
         [] key = kText -> <<"textContent">>
         [] OTHER -> key.s

\* the last pair named a property, not classList, whose write is rejected
Rejected ==
  /\ last.valid /\ ~last.key.sym /\ ~last.skip
  /\ TargetOf(last.key, last.pre) \in last.pre.props
  /\ TargetOf(last.key, last.pre) # <<"classList">>
  /\ TargetOf(last.key, last.pre) \in last.pre.ro

\* C7: a rejected property write ends with the attribute of the same
\* (possibly retargeted) name set to the value, the property unchanged, no
\* fault, and the loop going on to the remaining keys.
C7_RejectedWrite ==
  Rejected =>
    LET name == TargetOf(last.key, last.pre) IN
    /\ ~last.fault /\ pc # "thrown"
    /\ node.attrs = {a \in last.pre.attrs : a.n # name}
                      \cup {[n |-> name, v |-> ToStr(last.value)]}
    /\ node.pv = last.pre.pv
    /\ Len(last.log) = 1 /\ last.log[1].op = "setAttribute"

\* a rejected write of viewBox, then the next key, class, resolved the same way
C7_Witness ==
  /\ Rejected /\ last.key = kClass /\ last.pre.ns = "svg"
  /\ HasAttr(last.pre, <<"viewBox">>) /\ AttrOf(last.pre, <<"viewBox">>) = "7"
  /\ HasAttr(node, <<"className">>) /\ AttrOf(node, <<"className">>) = "s"

C9_QuestionToggles ==
  (NotProperty /\ StartsWith(last.key.s, "?")) =>
    LET name == SubSeq(last.key.s, 2, Len(last.key.s))
        on == last.value \notin {vFalse, vNull, vUndef}
    IN /\ ~last.fault
       /\ last.log = << Mut("toggleAttribute", name,
                            IF on THEN vTrue ELSE vFalse, <<>>) >>
       /\ node.attrs = {a \in last.pre.attrs : a.n # name}
                         \cup (IF on THEN {[n |-> name, v |-> ""]} ELSE {})
       /\ node.listeners = last.pre.listeners
       /\ node.pv = last.pre.pv

C9_Witness ==
  /\ NotProperty /\ last.key = kQOpen /\ last.value = vHandler
  /\ HasAttr(node, <<"open">>) /\ node.listeners = {}

\* C10: the `document` option, when not a property of the node, causes no
\* mutation of the node: no attribute, no property, no listener.
C10_DocumentNotResolved ==
  (NotProperty /\ last.key = kDocument) => (last.log = <<>> /\ Untouched)
====
